---- MODULE Spec2Model ----
(***************************************************************************)
(* Model of inventory_system.py: the inventory mapping, its add / remove / *)
(* query operations, the JSON persistence (load_data, save_data), the two  *)
(* reports and the menu loop of main().                                    *)
(*                                                                         *)
(* A Python dict is modelled as a sequence of entries                      *)
(* [name, quantity, price] with pairwise distinct names: the sequence      *)
(* order is the dict's insertion order, which is the order the reports and *)
(* json.dump iterate in.  Prices are floats; the model counts them in      *)
(* tenths (price 25 stands for 2.5).  Text (input lines, JSON numbers) is  *)
(* a sequence of one-character strings.                                    *)
(***************************************************************************)
EXTENDS Integers, Sequences, FiniteSets, TLC

VARIABLES
    pc,              \* position of main(): "start", "menu", "done", "crashed"
    file,            \* the durable store DATA_FILE
    file_before,     \* the durable store as it was before the last save_data call
    inventory_data,  \* the dict held by main()
    out,             \* lines printed by the last operation (menu banner left out)
    log,             \* events the last operation sent to the logger
    raised,          \* exception that left main(), "none" if none
    last,            \* the last operation main() called
    reads,           \* number of load_data calls
    writes,          \* number of save_data calls
    added,           \* per name, sum of the quantities of the add_item calls
    removed,         \* per name, sum of the quantities of the accepted remove_item calls
    calls            \* number of add_item / remove_item calls counted in added / removed

vars == <<pc, file, file_before, inventory_data, out, log, raised, last, reads, writes,
          added, removed, calls>>

-----------------------------------------------------------------------------
(* Bounds of the model *)

MaxQtyIn == 2      \* largest quantity typed at the prompt
MaxPriceIn == 0    \* largest price typed at the prompt, in tenths
MaxQty == 5        \* largest stored quantity explored
MaxCalls == 4      \* length of the call sequences of the ledger specification
MaxLedgerQty == 2  \* largest quantity of a call of the ledger specification

(* Program constants *)

LOW_STOCK_THRESHOLD == 5

Names == {"A", "B"}

-----------------------------------------------------------------------------
(* Text: str(), repr(), int(), float() and the JSON number grammar *)

Digit == <<"0", "1", "2", "3", "4", "5", "6", "7", "8", "9">>

DigitChars == {Digit[i] : i \in 1..10}

DigitValue(c) == (CHOOSE i \in 1..10 : Digit[i] = c) - 1

RECURSIVE NatToStr(_)
NatToStr(n) ==
    IF n < 10 THEN <<Digit[n + 1]>>
    ELSE NatToStr(n \div 10) \o <<Digit[(n % 10) + 1]>>

\* the decimal text of an int, as str(int) and the JSON encoder write it
IntToStr(i) == IF i < 0 THEN <<"-">> \o NatToStr(0 - i) ELSE NatToStr(i)

Abs(i) == IF i < 0 THEN 0 - i ELSE i

\* float.__repr__ of a price of p tenths: "2.5", "0.0", "-0.1"
FloatToStr(p) ==
    (IF p < 0 THEN <<"-">> ELSE <<>>)
        \o NatToStr(Abs(p) \div 10) \o <<".">> \o <<Digit[(Abs(p) % 10) + 1]>>

IsDigits(s) == Len(s) > 0 /\ \A i \in 1..Len(s) : s[i] \in DigitChars

RECURSIVE StrToNat(_)
StrToNat(s) ==
    IF Len(s) = 0 THEN 0
    ELSE 10 * StrToNat(SubSeq(s, 1, Len(s) - 1)) + DigitValue(s[Len(s)])

Unsigned(s) == IF Len(s) > 0 /\ s[1] = "-" THEN Tail(s) ELSE s

Negative(s) == Len(s) > 0 /\ s[1] = "-"

DotAt(s) == IF \E i \in 1..Len(s) : s[i] = "."
            THEN CHOOSE i \in 1..Len(s) : s[i] = "."
            ELSE 0

IsIntLiteral(s) == IsDigits(Unsigned(s))

\* a decimal literal with exactly one fractional digit, or an integer literal
IsFloatLiteral(s) ==
    LET u == Unsigned(s)
        d == DotAt(u)
    IN  \/ IsDigits(u)
        \/ /\ d > 1
           /\ d = Len(u) - 1
           /\ IsDigits(SubSeq(u, 1, d - 1))
           /\ u[Len(u)] \in DigitChars

IntValue(s) == IF Negative(s) THEN 0 - StrToNat(Unsigned(s)) ELSE StrToNat(Unsigned(s))

\* value in tenths of a literal accepted by IsFloatLiteral
FloatValue(s) ==
    LET u == Unsigned(s)
        d == DotAt(u)
        m == IF d = 0 THEN 10 * StrToNat(u)
             ELSE 10 * StrToNat(SubSeq(u, 1, d - 1)) + DigitValue(u[Len(u)])
    IN  IF Negative(s) THEN 0 - m ELSE m

\* int(line): the value, or ValueError
int_(line) ==
    IF IsIntLiteral(line) THEN [ok |-> TRUE, value |-> IntValue(line)]
    ELSE [ok |-> FALSE, value |-> 0]

\* float(line): the value in tenths, or ValueError
float_(line) ==
    IF IsFloatLiteral(line) THEN [ok |-> TRUE, value |-> FloatValue(line)]
    ELSE [ok |-> FALSE, value |-> 0]

-----------------------------------------------------------------------------
(* dict *)

EmptyDict == <<>>

Keys(d) == {d[i].name : i \in 1..Len(d)}

\* key in d
Has(d, k) == k \in Keys(d)

IndexOf(d, k) == CHOOSE i \in 1..Len(d) : d[i].name = k

\* d[k]
Get(d, k) == d[IndexOf(d, k)]

\* del d[k]
Del(d, k) ==
    LET i == IndexOf(d, k)
    IN  SubSeq(d, 1, i - 1) \o SubSeq(d, i + 1, Len(d))

\* d[k] = {"quantity": q, "price": p}: a new key goes last, an old one keeps its place
SetItem(d, k, q, p) ==
    IF Has(d, k)
    THEN [d EXCEPT ![IndexOf(d, k)] = [name |-> k, quantity |-> q, price |-> p]]
    ELSE Append(d, [name |-> k, quantity |-> q, price |-> p])

\* d1 == d2 for dicts: same keys, equal values, whatever the order
DictEq(d1, d2) ==
    /\ Keys(d1) = Keys(d2)
    /\ \A k \in Keys(d1) :
           /\ Get(d1, k).quantity = Get(d2, k).quantity
           /\ Get(d1, k).price = Get(d2, k).price

-----------------------------------------------------------------------------
(* Inventory store *)

\* add_item storing the new quantity over the old one instead of adding to it
add_item_assigns(item_name, quantity, price, d) ==
    IF Has(d, item_name)
    THEN [d EXCEPT ![IndexOf(d, item_name)].quantity = quantity]
    ELSE SetItem(d, item_name, quantity, price)

\* add_item rebuilding the record of an existing key, price included
add_item_reprices(item_name, quantity, price, d) ==
    IF Has(d, item_name)
    THEN SetItem(d, item_name, Get(d, item_name).quantity + quantity, price)
    ELSE SetItem(d, item_name, quantity, price)

add_item(item_name, quantity, price, d) ==
    IF Has(d, item_name)
    THEN [d EXCEPT ![IndexOf(d, item_name)].quantity = @ + quantity]
    ELSE SetItem(d, item_name, quantity, price)

add_item_log(item_name, quantity, price, d) ==
    IF Has(d, item_name)
    THEN <<[level |-> "INFO", event |-> "increased", name |-> item_name]>>
    ELSE <<[level |-> "INFO", event |-> "added", name |-> item_name]>>

\* remove_item without the check of the stock
remove_item_unchecked(item_name, quantity, d) ==
    IF ~Has(d, item_name) THEN d
    ELSE LET d2 == [d EXCEPT ![IndexOf(d, item_name)].quantity = @ - quantity]
         IN  IF Get(d2, item_name).quantity = 0 THEN Del(d2, item_name) ELSE d2

\* remove_item refusing to take the last of the stock (<= for <)
remove_item_strict(item_name, quantity, d) ==
    IF ~Has(d, item_name) THEN d
    ELSE IF Get(d, item_name).quantity <= quantity THEN d
    ELSE [d EXCEPT ![IndexOf(d, item_name)].quantity = @ - quantity]

remove_item(item_name, quantity, d) ==
    IF ~Has(d, item_name) THEN d
    ELSE IF Get(d, item_name).quantity < quantity THEN d
    ELSE LET d2 == [d EXCEPT ![IndexOf(d, item_name)].quantity = @ - quantity]
         IN  IF Get(d2, item_name).quantity = 0 THEN Del(d2, item_name) ELSE d2

remove_item_log(item_name, quantity, d) ==
    IF ~Has(d, item_name)
    THEN <<[level |-> "WARNING", event |-> "not_found", name |-> item_name]>>
    ELSE IF Get(d, item_name).quantity < quantity
    THEN <<[level |-> "WARNING", event |-> "insufficient", name |-> item_name]>>
    ELSE <<[level |-> "INFO", event |-> "removed", name |-> item_name]>>
         \o (IF Get(d, item_name).quantity - quantity = 0
             THEN <<[level |-> "INFO", event |-> "out_of_stock", name |-> item_name]>>
             ELSE <<>>)

get_qty(item_name, d) ==
    IF Has(d, item_name) THEN Get(d, item_name).quantity ELSE 0

-----------------------------------------------------------------------------
(* Persistence adapter *)

(* The durable store.  kind says what open() and json.load() meet:          *)
(*   "missing"     no file: os.path.exists is false                         *)
(*   "vanishing"   the file is deleted between os.path.exists and open      *)
(*   "unreadable"  the file exists and open() is refused with an OSError    *)
(*                 other than FileNotFoundError (PermissionError)           *)
(*   "notutf8"     the bytes are not UTF-8 (UnicodeDecodeError on read)     *)
(*   "corrupt"     the text is not JSON (json.JSONDecodeError)              *)
(*   "json"        a JSON object; text is its members in file order, each   *)
(*                 with the literal text of its two numbers                 *)
FileOf(kind, text) == [kind |-> kind, text |-> text]

\* json.dump(inventory_data, file, indent=4): one member per key, in dict order
json_dump(d) ==
    [i \in 1..Len(d) |->
        [key |-> d[i].name,
         quantity |-> IntToStr(d[i].quantity),
         price |-> FloatToStr(d[i].price)]]

\* json.load(file): members are stored in file order, a repeated key overwrites
RECURSIVE json_load(_)
json_load(text) ==
    IF Len(text) = 0 THEN EmptyDict
    ELSE LET m == text[Len(text)]
         IN  SetItem(json_load(SubSeq(text, 1, Len(text) - 1)),
                     m.key, IntValue(m.quantity), FloatValue(m.price))

\* load_data(): the exception that leaves it ("none" if it returns), the dict it
\* returns and the events it logs
load_data(f) ==
    IF f.kind = "missing"
    THEN [raised |-> "none", data |-> EmptyDict,
          log |-> <<[level |-> "WARNING", event |-> "no_data_file", name |-> ""]>>]
    ELSE IF f.kind = "unreadable"
    THEN [raised |-> "PermissionError", data |-> EmptyDict, log |-> <<>>]
    ELSE IF f.kind = "notutf8"
    THEN [raised |-> "UnicodeDecodeError", data |-> EmptyDict, log |-> <<>>]
    ELSE IF f.kind \in {"vanishing", "corrupt"}
    THEN [raised |-> "none", data |-> EmptyDict,
          log |-> <<[level |-> "ERROR", event |-> "load_error", name |-> ""]>>]
    ELSE [raised |-> "none", data |-> json_load(f.text), log |-> <<>>]

\* what open(DATA_FILE, "w") and the write can do
SaveOutcomes == {"ok", "open_fails", "write_fails"}

\* save_data adding the members to the object the file holds instead of replacing it
save_data_merges(d, f, outcome) ==
    IF outcome = "ok"
    THEN FileOf("json", (IF f.kind = "json" THEN f.text ELSE <<>>) \o json_dump(d))
    ELSE IF outcome = "open_fails" THEN f
    ELSE FileOf("corrupt", <<>>)

\* save_data(inventory_data): the file afterwards.  open(.., "w") truncates, so a
\* write that fails after the open leaves a file that is not JSON
save_data(d, f, outcome) ==
    IF outcome = "ok" THEN FileOf("json", json_dump(d))
    ELSE IF outcome = "open_fails" THEN f
    ELSE FileOf("corrupt", <<>>)

save_data_log(outcome) ==
    IF outcome = "ok"
    THEN <<[level |-> "INFO", event |-> "saved", name |-> ""]>>
    ELSE <<[level |-> "ERROR", event |-> "save_error", name |-> ""]>>

-----------------------------------------------------------------------------
(* Reporting *)

print_data(d) ==
    IF Len(d) = 0 THEN <<[kind |-> "empty", name |-> "", quantity |-> 0, price |-> 0]>>
    ELSE <<[kind |-> "header", name |-> "", quantity |-> 0, price |-> 0]>>
         \o [i \in 1..Len(d) |->
                [kind |-> "item", name |-> d[i].name,
                 quantity |-> d[i].quantity, price |-> d[i].price]]

\* the filter with <= for <
IsLow_inclusive(e) == e.quantity <= LOW_STOCK_THRESHOLD

IsLow(e) == e.quantity < LOW_STOCK_THRESHOLD

\* the dict comprehension of check_low_items
low_items(d) == SelectSeq(d, IsLow)

\* what check_low_items prints; a "low" line carries the threshold where an
\* "item" line carries the price
check_low_items(d) ==
    LET low == low_items(d)
    IN  IF Len(low) > 0
        THEN <<[kind |-> "low_header", name |-> "", quantity |-> 0, price |-> 0]>>
             \o [i \in 1..Len(low) |->
                    [kind |-> "low", name |-> low[i].name,
                     quantity |-> low[i].quantity, price |-> LOW_STOCK_THRESHOLD]]
        ELSE <<[kind |-> "none_found", name |-> "", quantity |-> 0, price |-> 0]>>

check_low_items_log(d) ==
    LET low == low_items(d)
    IN  [i \in 1..Len(low) |->
            [level |-> "WARNING", event |-> "low_stock", name |-> low[i].name]]

-----------------------------------------------------------------------------
(* main(): the state of the program *)

ZeroLedger == [n \in Names |-> 0]

\* well-formed stores left by earlier runs
InitMappings ==
    { <<[name |-> "A", quantity |-> LOW_STOCK_THRESHOLD - 1, price |-> 1],
        [name |-> "B", quantity |-> LOW_STOCK_THRESHOLD, price |-> 0]>> }

InitFiles ==
    {FileOf(k, <<>>) : k \in {"missing", "vanishing", "unreadable", "notutf8", "corrupt"}}
        \cup {FileOf("json", json_dump(m)) : m \in InitMappings}

\* lines the user types at the quantity and the price prompts
QtyLines == {IntToStr(i) : i \in (0 - 1)..MaxQtyIn} \cup {<<"a", "b", "c">>, <<"1", ".", "5">>}

PriceLines == {FloatToStr(p) : p \in (0 - 1)..MaxPriceIn} \cup {<<"x">>}

\* what qty = int(input(..)) and price = float(input(..)) make of those lines
QtyInputs == {int_(line) : line \in QtyLines}

PriceInputs == {float_(line) : line \in PriceLines}

\* the stored quantities the exploration is cut at
Explored(d) == \A i \in 1..Len(d) : d[i].quantity \in (0 - 1)..MaxQty

ledger == <<added, removed, calls>>

Init ==
    /\ pc = "start"
    /\ file \in InitFiles
    /\ file_before = file
    /\ inventory_data = EmptyDict
    /\ out = <<>>
    /\ log = <<>>
    /\ raised = "none"
    /\ last = "none"
    /\ reads = 0
    /\ writes = 0
    /\ added = ZeroLedger
    /\ removed = ZeroLedger
    /\ calls = 0

\* inventory_data = load_data()
Load ==
    /\ pc = "start"
    /\ LET r == load_data(file)
       IN  /\ pc' = IF r.raised = "none" THEN "menu" ELSE "crashed"
           /\ raised' = r.raised
           /\ inventory_data' = r.data
           /\ log' = r.log
    /\ file' = IF file.kind = "vanishing" THEN FileOf("missing", <<>>) ELSE file
    /\ out' = <<>>
    /\ last' = "load"
    /\ reads' = reads + 1
    /\ UNCHANGED <<file_before, writes, ledger>>

\* an input line that int() or float() rejects: ValueError leaves main()
ParseError ==
    /\ pc' = "crashed"
    /\ raised' = "ValueError"
    /\ last' = "input"
    /\ out' = <<>>
    /\ log' = <<>>
    /\ UNCHANGED <<file, file_before, inventory_data, reads, writes, ledger>>

\* the call add_item(name, quantity, price, inventory_data)
DoAdd(name, quantity, price) ==
    /\ last' = "add_item"
    /\ log' = add_item_log(name, quantity, price, inventory_data)
    /\ inventory_data' = add_item(name, quantity, price, inventory_data)
    /\ Explored(inventory_data')
    /\ out' = <<>>
    /\ UNCHANGED <<pc, file, file_before, raised, reads, writes>>

\* the call remove_item(name, quantity, inventory_data)
DoRemove(name, quantity) ==
    /\ last' = "remove_item"
    /\ log' = remove_item_log(name, quantity, inventory_data)
    /\ inventory_data' = remove_item(name, quantity, inventory_data)
    /\ Explored(inventory_data')
    /\ out' = <<>>
    /\ UNCHANGED <<pc, file, file_before, raised, reads, writes>>

\* choice "1"
ChoiceAdd ==
    /\ pc = "menu"
    /\ \E name \in Names, qty \in QtyInputs, price \in PriceInputs :
          IF ~qty.ok \/ ~price.ok
          THEN ParseError
          ELSE DoAdd(name, qty.value, price.value) /\ UNCHANGED ledger

\* choice "2"
ChoiceRemove ==
    /\ pc = "menu"
    /\ \E name \in Names, qty \in QtyInputs :
          IF ~qty.ok
          THEN ParseError
          ELSE DoRemove(name, qty.value) /\ UNCHANGED ledger

\* choice "3"
ChoiceViewQty ==
    /\ pc = "menu"
    /\ \E name \in Names :
          out' = <<[kind |-> "quantity", name |-> name,
                    quantity |-> get_qty(name, inventory_data), price |-> 0]>>
    /\ log' = <<>>
    /\ last' = "get_qty"
    /\ UNCHANGED <<pc, file, file_before, inventory_data, raised, reads, writes, ledger>>

\* choice "4"
ChoiceViewAll ==
    /\ pc = "menu"
    /\ out' = print_data(inventory_data)
    /\ log' = <<>>
    /\ last' = "print_data"
    /\ UNCHANGED <<pc, file, file_before, inventory_data, raised, reads, writes, ledger>>

\* choice "5"
ChoiceLowStock ==
    /\ pc = "menu"
    /\ out' = check_low_items(inventory_data)
    /\ log' = check_low_items_log(inventory_data)
    /\ last' = "check_low_items"
    /\ UNCHANGED <<pc, file, file_before, inventory_data, raised, reads, writes, ledger>>

\* choice "6": save_data(inventory_data), then break
ChoiceSaveExit ==
    /\ pc = "menu"
    /\ \E outcome \in SaveOutcomes :
          /\ file' = save_data(inventory_data, file, outcome)
          /\ log' = save_data_log(outcome)
    /\ file_before' = file
    /\ out' = <<[kind |-> "saved_exiting", name |-> "", quantity |-> 0, price |-> 0]>>
    /\ pc' = "done"
    /\ last' = "save_data"
    /\ writes' = writes + 1
    /\ UNCHANGED <<inventory_data, raised, reads, ledger>>

\* any other choice
ChoiceInvalid ==
    /\ pc = "menu"
    /\ out' = <<[kind |-> "invalid_choice", name |-> "", quantity |-> 0, price |-> 0]>>
    /\ log' = <<>>
    /\ last' = "invalid"
    /\ UNCHANGED <<pc, file, file_before, inventory_data, raised, reads, writes, ledger>>

Next ==
    \/ Load
    \/ ChoiceAdd
    \/ ChoiceRemove
    \/ ChoiceViewQty
    \/ ChoiceViewAll
    \/ ChoiceLowStock
    \/ ChoiceSaveExit
    \/ ChoiceInvalid

Spec == Init /\ [][Next]_vars

-----------------------------------------------------------------------------
(* Sequences of add_item / remove_item calls with quantities > 0 on a      *)
(* mapping that starts empty, with the ledger of what was asked for.       *)

InitLedger ==
    /\ pc = "menu"
    /\ file = FileOf("missing", <<>>)
    /\ file_before = file
    /\ inventory_data = EmptyDict
    /\ out = <<>>
    /\ log = <<>>
    /\ raised = "none"
    /\ last = "none"
    /\ reads = 0
    /\ writes = 0
    /\ added = ZeroLedger
    /\ removed = ZeroLedger
    /\ calls = 0

CallAdd ==
    /\ calls < MaxCalls
    /\ \E name \in Names, quantity \in 1..MaxLedgerQty, price \in 0..MaxPriceIn :
          /\ DoAdd(name, quantity, price)
          /\ added' = [added EXCEPT ![name] = @ + quantity]
    /\ calls' = calls + 1
    /\ UNCHANGED removed

\* a remove_item call is rejected when the name is absent or the stock is short
Rejected(name, quantity, d) == ~Has(d, name) \/ get_qty(name, d) < quantity

CallRemove ==
    /\ calls < MaxCalls
    /\ \E name \in Names, quantity \in 1..MaxLedgerQty :
          /\ DoRemove(name, quantity)
          /\ removed' = IF Rejected(name, quantity, inventory_data) THEN removed
                        ELSE [removed EXCEPT ![name] = @ + quantity]
    /\ calls' = calls + 1
    /\ UNCHANGED added

NextLedger == CallAdd \/ CallRemove

SpecLedger == InitLedger /\ [][NextLedger]_vars

-----------------------------------------------------------------------------
(* Properties *)

\* the integers and the prices (in tenths) the shell hands to add_item / remove_item
QtyValues == {i.value : i \in {x \in QtyInputs : x.ok}}

PriceValues == {i.value : i \in {x \in PriceInputs : x.ok}}

\* the arguments add_item is specified for: quantity > 0, price >= 0
ValidQty == {q \in QtyValues : q > 0}

ValidPrices == {p \in PriceValues : p >= 0}

Event(i) == IF Len(log) >= i THEN log[i].event ELSE "none"

\* the call main() has just made named n (add_item and remove_item log the name)
JustCalled(op, n) == last' = op /\ log'[1].name = n

\* C1: for a quantity q > 0 and a price p >= 0, after add_item(n, q, p, M) get_qty(n, M)
\* is what it was before the call (0 if n was absent) plus q, and the call succeeds
\* (n is a key afterwards, nothing is raised, the menu loop goes on) whether n was
\* present or not.
C1_AddIncreasesQty ==
    [][\A n \in Names :
          JustCalled("add_item", n) =>
              \A q \in ValidQty, p \in ValidPrices :
                  DoAdd(n, q, p)
                      => /\ get_qty(n, inventory_data') = get_qty(n, inventory_data) + q
                         /\ Has(inventory_data', n)
                         /\ raised' = "none"
                         /\ pc' = pc]_vars

\* add_item("B", 2, 0.0) has just created the record of B next to that of A
C1_Witness ==
    /\ last = "add_item"
    /\ Event(1) = "added"
    /\ Len(inventory_data) = 2
    /\ inventory_data[2] = [name |-> "B", quantity |-> 2, price |-> 0]

\* C2: a record that stays in the mapping keeps its price over every step (add_item
\* on an existing key never overwrites it, remove_item never touches it), and the
\* price of a record add_item creates is the price argument of that call.
C2_PriceKept ==
    [][/\ \A n \in Names :
             (Has(inventory_data, n) /\ Has(inventory_data', n))
                 => Get(inventory_data', n).price = Get(inventory_data, n).price
       /\ \A n \in Names :
             (JustCalled("add_item", n) /\ ~Has(inventory_data, n)) =>
                 \A q \in QtyValues, p \in PriceValues :
                     DoAdd(n, q, p) => Get(inventory_data', n).price = p]_vars

\* add_item has just been called on a name that was already a key
C2_Witness ==
    /\ last = "add_item"
    /\ Event(1) = "increased"
    /\ Has(inventory_data, log[1].name)
    /\ Get(inventory_data, log[1].name).price > 0

\* C3: remove_item(n, q, M) with n not a key of M, or with M[n].quantity < q, leaves
\* M exactly as it was and returns normally.
C3_RejectedRemoveIsNoOp ==
    [][\A n \in Names :
          JustCalled("remove_item", n) =>
              \A q \in QtyValues :
                  (DoRemove(n, q) /\ Rejected(n, q, inventory_data))
                      => /\ inventory_data' = inventory_data
                         /\ raised' = "none"
                         /\ pc' = "menu"]_vars

\* remove_item was just refused for lack of stock on a mapping that holds the item
C3_Witness ==
    /\ last = "remove_item"
    /\ Event(1) = "insufficient"
    /\ Has(inventory_data, log[1].name)
    /\ Get(inventory_data, log[1].name).quantity = 1

\* C4: after any remove_item call completes, the mapping contains no record whose
\* quantity is 0 (a removal that reaches exactly 0 deletes the record, so get_qty
\* returns 0 for a name only when it is not a key).
C4_NoZeroRecordAfterRemove ==
    last = "remove_item"
        => /\ \A i \in 1..Len(inventory_data) : inventory_data[i].quantity # 0
           /\ \A n \in Names :
                 get_qty(n, inventory_data) = 0 => ~Has(inventory_data, n)

\* C5: in every state of a run of the program, every record has quantity >= 0 and
\* price >= 0.
C5_NeverNegative ==
    \A i \in 1..Len(inventory_data) :
        inventory_data[i].quantity >= 0 /\ inventory_data[i].price >= 0

\* C6: load_data raises nothing and returns an empty mapping when the data file is
\* missing, cannot be parsed or cannot be opened; save_data raises nothing whatever
\* the outcome of the write, and leaves the mapping of the caller unchanged.
C6_PersistenceNeverRaises ==
    [][/\ Load => /\ raised' = "none"
                  /\ pc' = "menu"
                  /\ file.kind # "json" => inventory_data' = EmptyDict
       /\ ChoiceSaveExit => /\ raised' = "none"
                            /\ inventory_data' = inventory_data]_vars

WellFormed(d) ==
    \A i \in 1..Len(d) : d[i].quantity >= 0 /\ d[i].price >= 0

Saved == last = "save_data" /\ Event(1) = "saved"

\* C7: after a successful save_data(M) of a well-formed mapping M, load_data() on the
\* data file returns a mapping equal to M, whatever the file held before the save.
C7_RoundTrip ==
    (Saved /\ WellFormed(inventory_data))
        => /\ load_data(file).raised = "none"
           /\ DictEq(load_data(file).data, inventory_data)

\* a two-item mapping was saved over a store that held a different mapping
C7_Witness ==
    /\ Saved
    /\ WellFormed(inventory_data)
    /\ Len(inventory_data) = 2
    /\ file_before.kind = "json"
    /\ Keys(json_load(file_before.text)) = Names
    /\ ~DictEq(json_load(file_before.text), inventory_data)

LowLines == {i \in 1..Len(out) : out[i].kind = "low"}

\* C8: the low-stock report lists exactly the items whose quantity is strictly less
\* than the threshold, 5, each with its quantity; it prints the none-found line if
\* and only if no item qualifies; and it leaves the mapping unchanged.
C8_LowStockReport ==
    /\ [](last = "check_low_items"
            => /\ LOW_STOCK_THRESHOLD = 5
               /\ {out[i].name : i \in LowLines}
                     = {n \in Keys(inventory_data) : Get(inventory_data, n).quantity < 5}
               /\ \A i \in LowLines :
                     out[i].quantity = Get(inventory_data, out[i].name).quantity
               /\ (\E i \in 1..Len(out) : out[i].kind = "none_found")
                     <=> (\A n \in Keys(inventory_data) :
                             Get(inventory_data, n).quantity >= 5))
    /\ [][ChoiceLowStock => inventory_data' = inventory_data]_vars

\* the report ran on a mapping with one item at the threshold and one just below it
C8_Witness ==
    /\ last = "check_low_items"
    /\ \E n \in Keys(inventory_data) : Get(inventory_data, n).quantity = 5
    /\ \E n \in Keys(inventory_data) : Get(inventory_data, n).quantity = 4
    /\ Cardinality(LowLines) = 1

\* C9: the store is read exactly once, at startup, and is not written while the menu
\* loop runs; a run that has ended has called save_data with the current mapping, and
\* when that write succeeded the store holds the final mapping.  The ending is stated
\* for the runs whose load_data returned, those that reached the menu.
C9_SaveOnExit ==
    /\ pc # "start" => reads = 1
    /\ pc \in {"start", "menu"} => writes = 0
    /\ (pc \in {"done", "crashed"} /\ last # "load") => (last = "save_data" /\ writes = 1)
    /\ (pc = "done" /\ Saved) => DictEq(load_data(file).data, inventory_data)

\* C10: from the empty mapping, after any sequence of add_item and remove_item calls
\* with quantities > 0, get_qty(n) is the sum of the quantities added to n minus the
\* sum of the quantities of the remove_item calls for n that were not rejected; and a
\* call that names another item leaves get_qty(n) unchanged.
C10_StockConservation ==
    /\ [](\A n \in Names : get_qty(n, inventory_data) = added[n] - removed[n])
    /\ [][\A n \in Names, m \in Names, q \in 1..MaxLedgerQty :
             (m # n /\ (DoRemove(m, q) \/ \E p \in 0..MaxPriceIn : DoAdd(m, q, p)))
                 => get_qty(n, inventory_data') = get_qty(n, inventory_data)]_vars

\* both items were added to, A lost part of its stock to an accepted removal
C10_Witness ==
    /\ added["A"] = 3
    /\ removed["A"] = 1
    /\ added["B"] > 0
    /\ last = "remove_item"
    /\ Event(1) = "removed"

====
